---- MODULE Spec2Model ----
(***************************************************************************)
(* The message pipeline of src/main.py: process_url, extract_and_send and  *)
(* is_valid_url.  One handler invocation is a coroutine; its position     *)
(* (pc) rests at each await, and the awaited call (a reply primitive, an   *)
(* extractor) returns or raises.                                           *)
(*                                                                         *)
(* A message text is a sequence of tokens.  A word token stands for a run  *)
(* of characters that are all URL scheme characters (letters, digits,      *)
(* "+", "-", ".") and begins with a letter; the other tokens are single    *)
(* characters.  No search string of process_url straddles two tokens or    *)
(* lies inside a longer one, so substring search on the text is token      *)
(* membership.                                                             *)
(***************************************************************************)
EXTENDS Integers, Sequences, FiniteSets, TLC

\* ------------------------------------------------------------------ bounds
MaxHostLen == 2

\* ------------------------------------------------------------ urlparse
Words ==
  {"https", "youtube.com", "youtu.be", "instagram.com", "tiktok.com",
   "example.org", "YouTube.com", "not", "a", "url", "watch", "page"}

\* str.lower() on one token.
LowerTok(t) == IF t = "YouTube.com" THEN "youtube.com" ELSE t

Lower(s) == [i \in 1..Len(s) |-> LowerTok(s[i])]

\* needle in haystack
Contains(s, needle) == \E i \in 1..Len(s) : s[i] = needle

\* s.find(t), 0 when absent (1-based otherwise)
Find(s, t) ==
  IF Contains(s, t) THEN CHOOSE i \in 1..Len(s) : s[i] = t /\ \A j \in 1..(i-1) : s[j] # t
  ELSE 0

Drop(s, n) == IF n >= Len(s) THEN << >> ELSE SubSeq(s, n + 1, Len(s))

Take(s, n) == IF n >= Len(s) THEN s ELSE SubSeq(s, 1, n)

\* url.lstrip() of leading blanks, as urlsplit does first
RECURSIVE LStrip(_)
LStrip(s) == IF s # << >> /\ s[1] = " " THEN LStrip(Tail(s)) ELSE s

\* index of the first of "/", "?" at or after position start, Len(s)+1 if none
NetlocEnd(s, start) ==
  LET ds == {i \in start..Len(s) : s[i] \in {"/", "?"}}
  IN  IF ds = {} THEN Len(s) + 1 ELSE CHOOSE i \in ds : \A j \in ds : i <= j

\* urllib.parse.urlparse(url): the scheme and the netloc, or ValueError
urlparse(url) ==
  LET u == LStrip(url)
      i == Find(u, ":")
      hasScheme == i > 1 /\ \A j \in 1..(i-1) : u[j] \in Words
      scheme == IF hasScheme THEN Lower(Take(u, i - 1)) ELSE << >>
      rest == IF hasScheme THEN Drop(u, i) ELSE u
      hasNetloc == Len(rest) >= 2 /\ rest[1] = "/" /\ rest[2] = "/"
      netloc == IF hasNetloc THEN SubSeq(rest, 3, NetlocEnd(rest, 3) - 1) ELSE << >>
      badBracket == (Contains(netloc, "[") /\ ~Contains(netloc, "]"))
                    \/ (Contains(netloc, "]") /\ ~Contains(netloc, "["))
  IN  IF badBracket
      THEN [raised |-> TRUE, scheme |-> << >>, netloc |-> << >>]
      ELSE [raised |-> FALSE, scheme |-> scheme, netloc |-> netloc]

is_valid_url_SchemeOnly(url) ==
  LET result == urlparse(url)
  IN  IF result.raised THEN FALSE ELSE result.scheme # << >>

\* is_valid_url(url)
is_valid_url(url) ==
  LET result == urlparse(url)
  IN  IF result.raised THEN FALSE
      ELSE result.scheme # << >> /\ result.netloc # << >>

ExtractorFor_TiktokFirst(domain) ==
  IF Contains(domain, "tiktok.com") THEN "extract_tiktok"
  ELSE IF Contains(domain, "youtube.com") \/ Contains(domain, "youtu.be") THEN "extract_youtube"
  ELSE IF Contains(domain, "instagram.com") THEN "extract_instagram"
  ELSE "extract_generic"

\* the if/elif chain of process_url on the lower-cased host
ExtractorFor(domain) ==
  IF Contains(domain, "youtube.com") \/ Contains(domain, "youtu.be") THEN "extract_youtube"
  ELSE IF Contains(domain, "instagram.com") THEN "extract_instagram"
  ELSE IF Contains(domain, "tiktok.com") THEN "extract_tiktok"
  ELSE "extract_generic"

\* ------------------------------------------------------------ environment
DefaultMaxFileSize == 50000000

Digits == <<"0", "1", "2", "3", "4", "5", "6", "7", "8", "9">>

DigitVal(c) == (CHOOSE i \in 1..10 : Digits[i] = c) - 1

IsDigit(c) == \E i \in 1..10 : Digits[i] = c

\* int(s) for a string s of decimal digits; ValueError otherwise
RECURSIVE IntOf(_)
IntOf(s) == IF s = << >> THEN 0 ELSE 10 * IntOf(SubSeq(s, 1, Len(s) - 1)) + DigitVal(s[Len(s)])

IntRaises(s) == s = << >> \/ \E i \in 1..Len(s) : ~IsDigit(s[i])

\* os.environ as the handler sees it: MAX_FILE_SIZE unset, a number, or not a number
Environs ==
  { [HOME |-> "/root"],
    [HOME |-> "/root", MAX_FILE_SIZE |-> <<"5", "0", "0", "0", "0", "0", "0", "1">>],
    [HOME |-> "/root", MAX_FILE_SIZE |-> <<"5", "0", "M", "B">>] }

\* int(os.getenv("MAX_FILE_SIZE", 50000000)) raises ValueError
MaxFileSizeRaises(env) ==
  "MAX_FILE_SIZE" \in DOMAIN env /\ IntRaises(env.MAX_FILE_SIZE)

\* int(os.getenv("MAX_FILE_SIZE", 50000000))
MaxFileSize(env) ==
  IF "MAX_FILE_SIZE" \in DOMAIN env THEN IntOf(env.MAX_FILE_SIZE) ELSE DefaultMaxFileSize

\* ------------------------------------------------------------ inputs
HostTokens ==
  {"youtube.com", "youtu.be", "instagram.com", "tiktok.com", "example.org",
   "YouTube.com", "["}

Hosts == UNION {[1..n -> HostTokens] : n \in 0..MaxHostLen}

Prefixes ==
  { << >>, <<"https", ":", "/">>, <<"https", ":", "/", "/">>,
    <<":", "/", "/">>, <<" ", "https", ":", "/", "/">> }

Suffixes == { << >>, <<"/", "youtube.com">> }

\* the texts a user may send
Texts ==
  {p \o h \o s : p \in Prefixes, h \in Hosts, s \in Suffixes}
    \cup {<<"not", " ", "a", " ", "url">>}

\* the texts of the serving loop's messages
SampleTexts ==
  { <<"not", " ", "a", " ", "url">>,
    <<"https", ":", "/", "/", "[">>,
    <<"https", ":", "/", "youtube.com">>,
    <<"youtube.com", "/", "watch">>,
    <<"https", ":", "/", "/", "youtube.com", "/", "watch">>,
    <<"https", ":", "/", "/", "tiktok.com", "instagram.com">>,
    <<"https", ":", "/", "/", "example.org", "/", "page">> }

Types == {"video", "photo", "audio", "document", "animation"}

Paths == {"/tmp/a.mp4", "/tmp/b.jpg"}

Captions == {"", "c"}

Sizes == {DefaultMaxFileSize, DefaultMaxFileSize + 1, DefaultMaxFileSize + 2}

DirectUrls == {"https://cdn/x.mp4"}

\* the dicts an extractor may return
MediaInfos ==
  [type : Types, file_path : Paths, caption : Captions]
    \cup [type : Types, file_path : Paths, caption : Captions, file_size : Sizes]
    \cup [type : Types, file_path : Paths, caption : Captions, direct_url : DirectUrls]
    \cup [type : Types, file_path : Paths, caption : Captions, file_size : Sizes,
          direct_url : DirectUrls]

\* the video of the scenarios, at the default size limit
ScenarioVideo ==
  [type |-> "video", file_path |-> "/tmp/a.mp4", caption |-> "c",
   file_size |-> DefaultMaxFileSize]

\* Python's None, as an extractor returns it for "nothing extractable"
None == [NoneType |-> "None"]

\* ------------------------------------------------------------ state
VARIABLES
  req,      \* handler slot -> the process_url invocation running (or last run) in it
  fs,       \* the paths that exist on disk
  environ   \* os.environ

vars == <<req, fs, environ>>

\* the reply texts; a text is <<fixed part, interpolated part>>
InvalidUrlText == <<"Please send a valid URL", "">>
AckText == <<"Processing your request, please wait...", "">>
NoMediaText_AsError == <<"Error sending media: ", "no media">>
NoMediaText == <<"Could not extract media from this URL.", "">>
TooLargeText_NoFallback(m) ==
  <<"Video is too large to send via Telegram. Download link: ",
    IF "direct_url" \in DOMAIN m THEN m.direct_url ELSE "None">>
TooLargeText(m) ==
  <<"Video is too large to send via Telegram. Download link: ",
    IF "direct_url" \in DOMAIN m THEN m.direct_url ELSE "Not available">>
ErrorSendingText(e) == <<"Error sending media: ", e>>
ErrorProcessingText(e) == <<"Error processing your request: ", e>>

\* a call the coroutine makes; status is "pending" until the call returns
reply_text(text) == [op |-> "reply_text", text |-> text, status |-> "pending"]
reply_video(m) ==
  [op |-> "reply_video", file |-> m.file_path, caption |-> m.caption,
   supports_streaming |-> TRUE, status |-> "pending"]
reply_photo(m) ==
  [op |-> "reply_photo", file |-> m.file_path, caption |-> m.caption, status |-> "pending"]
reply_audio(m) ==
  [op |-> "reply_audio", file |-> m.file_path, caption |-> m.caption, status |-> "pending"]
reply_document(m) ==
  [op |-> "reply_document", file |-> m.file_path, caption |-> m.caption, status |-> "pending"]
extractor_call(f) == [op |-> f, status |-> "pending"]
os_remove(path, status) == [op |-> "os.remove", file |-> path, status |-> status]

Returned_NotAwaited(calls, ok) == calls

\* the pending call (the last one made) returns or raises
Returned(calls, ok) ==
  [calls EXCEPT ![Len(calls)].status = IF ok THEN "ok" ELSE "raised"]

\* a slot before its first message
Idle ==
  [pc |-> "idle", url |-> << >>, extractor_func |-> "", media_info |-> None,
   e |-> "", calls |-> << >>, outcome |-> "none"]

\* process_url is over: it returned, or an exception left it
Finish(rec, calls, outcome) ==
  [rec EXCEPT !.pc = "done", !.calls = calls, !.outcome = outcome]

InnerHandler_NoCause(rec, calls, e) ==
  [rec EXCEPT !.pc = "L124", !.e = e,
              !.calls = Append(calls, [op |-> "reply_text", status |-> "pending",
                                       text |-> <<"Error sending media: ", "">>])]

InnerHandler_Reraises(rec, calls, e) ==
  [rec EXCEPT !.pc = "L78", !.e = e,
              !.calls = Append(calls, reply_text(ErrorProcessingText(e)))]

InnerHandler_Retry(rec, calls, e) ==
  [rec EXCEPT !.pc = "L84", !.e = e, !.media_info = None,
              !.calls = <<calls[1], extractor_call(rec.extractor_func)>>]

\* the except clause of extract_and_send, up to its await
InnerHandler(rec, calls, e) ==
  [rec EXCEPT !.pc = "L124", !.e = e,
              !.calls = Append(calls, reply_text(ErrorSendingText(e)))]

\* the except clause of process_url, up to its await
OuterHandler(rec, calls, e) ==
  [rec EXCEPT !.pc = "L78", !.e = e,
              !.calls = Append(calls, reply_text(ErrorProcessingText(e)))]

ExtractErrors == {"DownloadError"}

Init ==
  /\ req = [r \in {1} |-> Idle]
  /\ fs \in SUBSET Paths
  /\ environ \in Environs

\* lines 51-60: a text message arrives; validate it; start the first reply
ProcessUrl(r, text) ==
  /\ req[r].pc \in {"idle", "done"}
  /\ req' = [req EXCEPT ![r] =
       IF ~is_valid_url(text)
       THEN [Idle EXCEPT !.pc = "L57", !.url = text, !.outcome = "running",
                         !.calls = <<reply_text(InvalidUrlText)>>]
       ELSE [Idle EXCEPT !.pc = "L60", !.url = text, !.outcome = "running",
                         !.calls = <<reply_text(AckText)>>]]
  /\ UNCHANGED <<fs, environ>>

\* lines 57-58: the invalid-URL reply returns or raises; nothing catches it
InvalidReplyDone(r, ok) ==
  /\ req[r].pc = "L57"
  /\ req' = [req EXCEPT ![r] =
       Finish(@, Returned(@.calls, ok), IF ok THEN "returned" ELSE "raised")]
  /\ UNCHANGED <<fs, environ>>

AckDone_IgnoresFailure(r, ok) ==
  /\ req[r].pc = "L60"
  /\ req' = [req EXCEPT ![r] =
       LET calls == Returned(@.calls, ok)
           f == ExtractorFor(Lower(urlparse(@.url).netloc))
       IN  [@ EXCEPT !.pc = "L84", !.extractor_func = f,
                     !.calls = Append(calls, extractor_call(f))]]
  /\ UNCHANGED <<fs, environ>>

\* lines 60-84: the acknowledgment returns (then classify and call the extractor)
\* or raises (nothing catches it)
AckDone(r, ok) ==
  /\ req[r].pc = "L60"
  /\ req' = [req EXCEPT ![r] =
       LET calls == Returned(@.calls, ok)
           parsed == urlparse(@.url)
           f == ExtractorFor(Lower(parsed.netloc))
       IN  IF ~ok THEN Finish(@, calls, "raised")
           ELSE IF parsed.raised THEN OuterHandler(@, calls, "ValueError")
           ELSE [@ EXCEPT !.pc = "L84", !.extractor_func = f,
                          !.calls = Append(calls, extractor_call(f))]]
  /\ UNCHANGED <<fs, environ>>

\* line 86: not media_info
Falsy(m) == m = None

TooLarge_Ge(m, env) == m.file_size >= MaxFileSize(env)

\* line 92: media_info["file_size"] > int(os.getenv("MAX_FILE_SIZE", 50000000))
TooLarge(m, env) == m.file_size > MaxFileSize(env)

\* lines 86-116, up to the await: the "could not extract" notice, or the
\* delivery channel for media_info m
SelectDelivery(rec, calls, m, env) ==
  LET send(pc, call) == [rec EXCEPT !.pc = pc, !.media_info = m, !.calls = Append(calls, call)]
      caught(e) == InnerHandler([rec EXCEPT !.media_info = m], calls, e)
  IN  IF Falsy(m) THEN send("L87", reply_text(NoMediaText))
      ELSE IF m.type = "video"
        THEN IF "file_size" \notin DOMAIN m THEN caught("KeyError")
             ELSE IF MaxFileSizeRaises(env) THEN caught("ValueError")
             ELSE IF TooLarge(m, env)
               THEN send("L93", reply_text(TooLargeText(m)))
               ELSE send("L97", reply_video(m))
      ELSE IF m.type = "photo" THEN send("L103", reply_photo(m))
      ELSE IF m.type = "audio" THEN send("L108", reply_audio(m))
      ELSE send("L113", reply_document(m))

\* line 84: the extractor raises
ExtractorRaises(r, e) ==
  /\ req[r].pc = "L84"
  /\ req' = [req EXCEPT ![r] = InnerHandler(@, Returned(@.calls, FALSE), e)]
  /\ UNCHANGED <<fs, environ>>

\* lines 84-116: the extractor returns None or a dict (having written, or not,
\* the file it names); the handler picks the reply
ExtractorReturns(r, m, written) ==
  /\ req[r].pc = "L84"
  /\ m = None => ~written
  /\ req' = [req EXCEPT ![r] = SelectDelivery(@, Returned(@.calls, TRUE), m, environ)]
  /\ fs' = IF written THEN fs \cup {m.file_path} ELSE fs
  /\ UNCHANGED environ

\* lines 87-88: the "could not extract" notice returns (and so does the handler)
\* or raises
NoMediaReplyDone(r, ok) ==
  /\ req[r].pc = "L87"
  /\ req' = [req EXCEPT ![r] =
       IF ok THEN Finish(@, Returned(@.calls, TRUE), "returned")
       ELSE InnerHandler(@, Returned(@.calls, FALSE), "NetworkError")]
  /\ UNCHANGED <<fs, environ>>

DeliveryPcs == {"L93", "L97", "L103", "L108", "L113"}

\* what os.remove may do to a file that os.path.exists has just seen
RemoveOutcomes == {"removed", "PermissionError", "FileNotFoundError"}

\* lines 119-120 and the return
Cleanup(rec, calls, exists, rm) ==
  LET path == rec.media_info.file_path
  IN  IF ~exists THEN Finish(rec, calls, "returned")
      ELSE IF rm = "removed" THEN Finish(rec, Append(calls, os_remove(path, "ok")), "returned")
      ELSE InnerHandler(rec, Append(calls, os_remove(path, "raised")), rm)

CleanupFs_Keeps(files, path, rm) == files

CleanupFs_All(files, path, rm) == {}

\* the disk after lines 119-120
CleanupFs(files, path, rm) ==
  IF path \in files /\ rm \in {"removed", "FileNotFoundError"} THEN files \ {path} ELSE files

DeliveryDone_Finally(r, ok, rm) ==
  /\ req[r].pc \in DeliveryPcs
  /\ req[r].media_info.file_path \notin fs => rm = "removed"
  /\ req' = [req EXCEPT ![r] =
       Cleanup(@, Returned(@.calls, ok), @.media_info.file_path \in fs, rm)]
  /\ fs' = CleanupFs(fs, req[r].media_info.file_path, rm)
  /\ UNCHANGED environ

\* lines 93-120: the delivery reply returns (then clean up) or raises
DeliveryDone(r, ok, rm) ==
  /\ req[r].pc \in DeliveryPcs
  /\ (~ok \/ req[r].media_info.file_path \notin fs) => rm = "removed"
  /\ req' = [req EXCEPT ![r] =
       IF ok THEN Cleanup(@, Returned(@.calls, TRUE), @.media_info.file_path \in fs, rm)
       ELSE InnerHandler(@, Returned(@.calls, FALSE), "NetworkError")]
  /\ fs' = IF ok THEN CleanupFs(fs, req[r].media_info.file_path, rm) ELSE fs
  /\ UNCHANGED environ

\* line 124: the "Error sending media" notice returns (and so do extract_and_send
\* and process_url) or raises into process_url's except clause
InnerReplyDone(r, ok) ==
  /\ req[r].pc = "L124"
  /\ req' = [req EXCEPT ![r] =
       IF ok THEN Finish(@, Returned(@.calls, TRUE), "returned")
       ELSE OuterHandler(@, Returned(@.calls, FALSE), "NetworkError")]
  /\ UNCHANGED <<fs, environ>>

\* line 78: the "Error processing your request" notice returns or raises; nothing
\* catches it
OuterReplyDone(r, ok) ==
  /\ req[r].pc = "L78"
  /\ req' = [req EXCEPT ![r] =
       Finish(@, Returned(@.calls, ok), IF ok THEN "returned" ELSE "raised")]
  /\ UNCHANGED <<fs, environ>>

\* the serving loop: one handler at a time, message after message
Next ==
  \/ \E r \in DOMAIN req : req[r].pc \in {"idle", "done"}
       /\ \E text \in SampleTexts : ProcessUrl(r, text)
  \/ \E r \in DOMAIN req, ok \in BOOLEAN : InvalidReplyDone(r, ok)
  \/ \E r \in DOMAIN req, ok \in BOOLEAN : AckDone(r, ok)
  \/ \E r \in DOMAIN req, e \in ExtractErrors : ExtractorRaises(r, e)
  \/ \E r \in DOMAIN req : req[r].pc = "L84"
       /\ \E m \in MediaInfos \cup {None}, written \in BOOLEAN : ExtractorReturns(r, m, written)
  \/ \E r \in DOMAIN req, ok \in BOOLEAN : NoMediaReplyDone(r, ok)
  \/ \E r \in DOMAIN req, ok \in BOOLEAN, rm \in RemoveOutcomes : DeliveryDone(r, ok, rm)
  \/ \E r \in DOMAIN req, ok \in BOOLEAN : InnerReplyDone(r, ok)
  \/ \E r \in DOMAIN req, ok \in BOOLEAN : OuterReplyDone(r, ok)

Spec == Init /\ [][Next]_vars

\* an awaited call (extractor, reply or send) returns or raises and the
\* coroutine runs on to its next await or to its end
Returns ==
  \/ \E r \in DOMAIN req, ok \in BOOLEAN : InvalidReplyDone(r, ok)
  \/ \E r \in DOMAIN req, ok \in BOOLEAN : AckDone(r, ok)
  \/ \E r \in DOMAIN req, e \in ExtractErrors : ExtractorRaises(r, e)
  \/ \E r \in DOMAIN req : req[r].pc = "L84"
       /\ \E m \in MediaInfos \cup {None}, written \in BOOLEAN : ExtractorReturns(r, m, written)
  \/ \E r \in DOMAIN req, ok \in BOOLEAN : NoMediaReplyDone(r, ok)
  \/ \E r \in DOMAIN req, ok \in BOOLEAN, rm \in RemoveOutcomes : DeliveryDone(r, ok, rm)
  \/ \E r \in DOMAIN req, ok \in BOOLEAN : InnerReplyDone(r, ok)
  \/ \E r \in DOMAIN req, ok \in BOOLEAN : OuterReplyDone(r, ok)

\* the serving loop when every awaited call is eventually over
SpecLive == Init /\ [][Next]_vars /\ WF_vars(Returns)

\* one message of any text, with an extractor that finds nothing, fails, or
\* returns the video of the scenarios
NextUrl ==
  \/ \E r \in DOMAIN req : req[r].pc = "idle"
       /\ \E text \in Texts : ProcessUrl(r, text)
  \/ \E r \in DOMAIN req, ok \in BOOLEAN : InvalidReplyDone(r, ok)
  \/ \E r \in DOMAIN req, ok \in BOOLEAN : AckDone(r, ok)
  \/ \E r \in DOMAIN req, e \in ExtractErrors : ExtractorRaises(r, e)
  \/ \E r \in DOMAIN req, m \in {ScenarioVideo, None} : ExtractorReturns(r, m, m # None)
  \/ \E r \in DOMAIN req, ok \in BOOLEAN : NoMediaReplyDone(r, ok)
  \/ \E r \in DOMAIN req, ok \in BOOLEAN, rm \in RemoveOutcomes : DeliveryDone(r, ok, rm)
  \/ \E r \in DOMAIN req, ok \in BOOLEAN : InnerReplyDone(r, ok)
  \/ \E r \in DOMAIN req, ok \in BOOLEAN : OuterReplyDone(r, ok)

SpecUrl == Init /\ [][NextUrl]_vars

\* ---------------------------------------------------- two requests

\* the texts and the dicts of the two-request specifications
TwoTexts ==
  { <<"not", " ", "a", " ", "url">>,
    <<"https", ":", "/", "/", "youtube.com", "/", "watch">> }

TwoMedia ==
  {m \in MediaInfos :
     /\ m.caption = "c" /\ m.type \in {"video", "photo"}
     /\ DOMAIN m = {"type", "file_path", "caption", "file_size"}}

InitTwo ==
  /\ req = [r \in {1, 2} |-> Idle]
  /\ fs \in SUBSET Paths
  /\ environ \in Environs

\* request r is between its first line and its end
InFlight(r) == req[r].pc \notin {"idle", "done"}

\* the extractor names a file no other request in flight has been given
DistinctPath(r, m) ==
  m # None =>
    \A q \in DOMAIN req \ {r} :
      (InFlight(q) /\ req[q].media_info # None) => req[q].media_info.file_path # m.file_path

\* two handlers at once, interleaved at their awaits
NextConc ==
  \/ \E r \in DOMAIN req : req[r].pc = "idle"
       /\ \E text \in TwoTexts : ProcessUrl(r, text)
  \/ \E r \in DOMAIN req, ok \in BOOLEAN : InvalidReplyDone(r, ok)
  \/ \E r \in DOMAIN req, ok \in BOOLEAN : AckDone(r, ok)
  \/ \E r \in DOMAIN req, e \in ExtractErrors : ExtractorRaises(r, e)
  \/ \E r \in DOMAIN req : req[r].pc = "L84"
       /\ \E m \in TwoMedia \cup {None}, written \in BOOLEAN :
            DistinctPath(r, m) /\ ExtractorReturns(r, m, written)
  \/ \E r \in DOMAIN req, ok \in BOOLEAN : NoMediaReplyDone(r, ok)
  \/ \E r \in DOMAIN req, ok \in BOOLEAN, rm \in RemoveOutcomes : DeliveryDone(r, ok, rm)
  \/ \E r \in DOMAIN req, ok \in BOOLEAN : InnerReplyDone(r, ok)
  \/ \E r \in DOMAIN req, ok \in BOOLEAN : OuterReplyDone(r, ok)

SpecConc == InitTwo /\ [][NextConc]_vars

\* code running in the process sets or unsets MAX_FILE_SIZE in os.environ
SetEnv(env) ==
  /\ env # environ
  /\ environ' = env
  /\ UNCHANGED <<req, fs>>

\* two requests one after the other, in a process whose environment changes
NextEnv ==
  \/ \E r \in DOMAIN req : req[r].pc = "idle" /\ (r = 1 \/ req[1].pc = "done")
       /\ \E text \in TwoTexts : ProcessUrl(r, text)
  \/ \E env \in Environs : SetEnv(env)
  \/ \E r \in DOMAIN req, ok \in BOOLEAN : InvalidReplyDone(r, ok)
  \/ \E r \in DOMAIN req, ok \in BOOLEAN : AckDone(r, ok)
  \/ \E r \in DOMAIN req, e \in ExtractErrors : ExtractorRaises(r, e)
  \/ \E r \in DOMAIN req : req[r].pc = "L84"
       /\ \E m \in TwoMedia \cup {None}, written \in BOOLEAN : ExtractorReturns(r, m, written)
  \/ \E r \in DOMAIN req, ok \in BOOLEAN : NoMediaReplyDone(r, ok)
  \/ \E r \in DOMAIN req, ok \in BOOLEAN, rm \in RemoveOutcomes : DeliveryDone(r, ok, rm)
  \/ \E r \in DOMAIN req, ok \in BOOLEAN : InnerReplyDone(r, ok)
  \/ \E r \in DOMAIN req, ok \in BOOLEAN : OuterReplyDone(r, ok)

SpecEnv == InitTwo /\ [][NextEnv]_vars

\* ------------------------------------------------------------ vocabulary of the claims
ExtractorOps == {"extract_youtube", "extract_instagram", "extract_tiktok", "extract_generic"}

BinaryOps == {"reply_video", "reply_photo", "reply_audio", "reply_document"}

ReplyOps == BinaryOps \cup {"reply_text"}

Done(r) == req[r].pc = "done"

CallIdx(r) == 1..Len(req[r].calls)

\* the calls of request r with an op among ops
CallsWith(r, ops) == {i \in CallIdx(r) : req[r].calls[i].op \in ops}

IsAck(c) == c.op = "reply_text" /\ c.text = AckText

IsTooLargeNotice(c) ==
  c.op = "reply_text"
    /\ c.text[1] = "Video is too large to send via Telegram. Download link: "

IsErrorNotice(c) ==
  c.op = "reply_text"
    /\ c.text[1] \in {"Error sending media: ", "Error processing your request: "}

\* the replies that reached the user, the acknowledgment aside
TerminalMessages(r) ==
  {i \in CallsWith(r, ReplyOps) :
     req[r].calls[i].status = "ok" /\ ~IsAck(req[r].calls[i])}

\* the extractor of request r returned a dict
HasMedia(r) == req[r].media_info # None

\* the delivery step of request r: the binary send or the oversize notice
DeliveryCalls(r) ==
  {i \in CallIdx(r) :
     req[r].calls[i].op \in BinaryOps \/ IsTooLargeNotice(req[r].calls[i])}

DeliverySucceeded(r) == \E i \in DeliveryCalls(r) : req[r].calls[i].status = "ok"

DeliveryRaised(r) == \E i \in DeliveryCalls(r) : req[r].calls[i].status = "raised"

RemoveRaised(r) ==
  \E i \in CallsWith(r, {"os.remove"}) : req[r].calls[i].status = "raised"

\* the size limit is readable and the video's size is above it
Oversize(r) ==
  /\ HasMedia(r)
  /\ req[r].media_info.type = "video"
  /\ "file_size" \in DOMAIN req[r].media_info
  /\ ~MaxFileSizeRaises(environ)
  /\ req[r].media_info.file_size > MaxFileSize(environ)

\* ------------------------------------------------------------ claims

\* no reply of request r raised
NoReplyRaised(r) ==
  \A i \in CallsWith(r, ReplyOps) : req[r].calls[i].status # "raised"

\* C1: once a request whose extractor returned a MediaInfo and whose delivery
\* step was attempted reaches done, the file at media.file_path does not exist,
\* whether the delivery succeeded or raised.  Stated for the runs in which
\* os.remove itself does not fail; the code skips lines 119-120 when the
\* delivery raises, so the formula is violated.
C1_ArtifactGoneAtDone ==
  \A r \in DOMAIN req :
    (Done(r) /\ HasMedia(r) /\ (DeliverySucceeded(r) \/ DeliveryRaised(r))
       /\ ~RemoveRaised(r))
      => req[r].media_info.file_path \notin fs

\* C2: by the time process_url finishes, the user has received exactly one
\* terminal message (a successfully sent reply other than the acknowledgment).
\* Stated for the runs in which every reply goes through; the code still sends
\* two when os.remove raises after a successful delivery, so the formula is
\* violated.
C2_ExactlyOneTerminalMessage ==
  \A r \in DOMAIN req :
    (Done(r) /\ NoReplyRaised(r)) => Cardinality(TerminalMessages(r)) = 1

\* C3: no exception leaves process_url.  Violated: the replies of lines 57, 60
\* and 78 are awaited outside any try block.
C3_NoExceptionEscapes ==
  \A r \in DOMAIN req : req[r].outcome # "raised"

\* C4: a video above the size limit is never sent by a binary primitive; the
\* one delivery call is the text notice, carrying media.direct_url when the
\* dict has one and "Not available" when it has none.
C4_OversizeVideoGetsNotice ==
  \A r \in DOMAIN req :
    Oversize(r) =>
      /\ CallsWith(r, BinaryOps) = {}
      /\ Cardinality(DeliveryCalls(r)) = 1
      /\ \A i \in DeliveryCalls(r) :
           /\ i = 3
           /\ req[r].calls[i].op = "reply_text"
           /\ req[r].calls[i].text[2] =
                IF "direct_url" \in DOMAIN req[r].media_info
                THEN req[r].media_info.direct_url
                ELSE "Not available"

\* C4 witness: an oversize video without direct_url whose notice reached the user
C4_Witness ==
  \E r \in DOMAIN req :
    /\ Done(r) /\ Oversize(r)
    /\ "direct_url" \notin DOMAIN req[r].media_info
    /\ \E i \in TerminalMessages(r) : req[r].calls[i].text[2] = "Not available"

\* C5 as stated: when the delivery of a video returns without raising, the
\* file does not exist when the request reaches done.  Violated when os.remove
\* raises and leaves the file.
C5_VideoFileGoneAfterDelivery ==
  \A r \in DOMAIN req :
    (Done(r) /\ HasMedia(r) /\ req[r].media_info.type = "video" /\ DeliverySucceeded(r))
      => req[r].media_info.file_path \notin fs

\* C5, amended: when the delivery of a video returns without raising and
\* os.remove does not raise, the file does not exist when the request reaches
\* done; a video within the limit went out by reply_video with streaming
\* enabled, a video above it got only the text notice; and any os.remove comes
\* after the delivery call.
C5_VideoFileGoneUnlessRemoveRaises ==
  \A r \in DOMAIN req :
    (Done(r) /\ HasMedia(r) /\ req[r].media_info.type = "video"
       /\ DeliverySucceeded(r) /\ ~RemoveRaised(r))
      => /\ req[r].media_info.file_path \notin fs
         /\ IF Oversize(r)
            THEN IsTooLargeNotice(req[r].calls[3]) /\ CallsWith(r, BinaryOps) = {}
            ELSE /\ req[r].calls[3].op = "reply_video"
                 /\ req[r].calls[3].supports_streaming
                 /\ req[r].calls[3].file = req[r].media_info.file_path
         /\ CallsWith(r, {"os.remove"}) \subseteq {4}
         /\ \A i \in CallsWith(r, {"os.remove"}) :
              req[r].calls[i].file = req[r].media_info.file_path

\* C5 witness: a video within the limit was delivered and its file, which
\* existed, was removed
C5_Witness ==
  \E r \in DOMAIN req :
    /\ Done(r) /\ HasMedia(r) /\ req[r].media_info.type = "video" /\ ~Oversize(r)
    /\ DeliverySucceeded(r)
    /\ \E i \in CallsWith(r, {"os.remove"}) : req[r].calls[i].status = "ok"
    /\ req[r].media_info.file_path \notin fs

\* the text has no scheme or no host (or does not parse at all)
NoSchemeOrNoHost(url) ==
  LET p == urlparse(url) IN p.raised \/ p.scheme = << >> \/ p.netloc = << >>

\* C6: for a text with no scheme or no host the only call of the request is the
\* reply "Please send a valid URL": no acknowledgment, no extractor, no media
\* send, no deletion; the request is done as soon as that reply is over; and no
\* step of such a request changes the files on disk.
C6_InvalidUrlShortCircuits ==
  /\ [](\A r \in DOMAIN req :
          (req[r].pc # "idle" /\ NoSchemeOrNoHost(req[r].url))
            => /\ Len(req[r].calls) = 1
               /\ req[r].calls[1].op = "reply_text"
               /\ req[r].calls[1].text = <<"Please send a valid URL", "">>
               /\ req[r].pc \in {"L57", "done"}
               /\ Done(r) <=> req[r].calls[1].status # "pending")
  /\ [][\A r \in DOMAIN req :
          (req'[r].pc # "idle" /\ NoSchemeOrNoHost(req'[r].url)) => fs' = fs]_vars

\* C6 witness: "not a url" was answered with the notice and the request is done
C6_Witness ==
  \E r \in DOMAIN req :
    /\ Done(r)
    /\ req[r].url = <<"not", " ", "a", " ", "url">>
    /\ req[r].calls[1].status = "ok"
    /\ req[r].calls[1].text[1] = "Please send a valid URL"

\* the extractor of request r returned None
ExtractorReturnedNone(r) ==
  /\ Len(req[r].calls) >= 2
  /\ req[r].calls[2].op \in ExtractorOps
  /\ req[r].calls[2].status = "ok"
  /\ ~HasMedia(r)

\* C7: when the extractor returns None, the next call is the reply "Could not
\* extract media from this URL."; no binary send and no deletion is made; and
\* when that reply goes through, the request returns with no error notice.
C7_AbsentGetsNoMediaNotice ==
  \A r \in DOMAIN req :
    ExtractorReturnedNone(r)
      => /\ Len(req[r].calls) >= 3
         /\ req[r].calls[3].op = "reply_text"
         /\ req[r].calls[3].text = <<"Could not extract media from this URL.", "">>
         /\ DeliveryCalls(r) = {}
         /\ CallsWith(r, {"os.remove"}) = {}
         /\ req[r].calls[3].status = "ok"
              => Done(r) /\ Len(req[r].calls) = 3 /\ req[r].outcome = "returned"
         /\ \A i \in CallIdx(r) :
              IsErrorNotice(req[r].calls[i]) => req[r].calls[3].status = "raised"

\* C7 witness: the extractor found nothing at https://example.org/page and the
\* user got the notice
C7_Witness ==
  \E r \in DOMAIN req :
    /\ Done(r) /\ ExtractorReturnedNone(r)
    /\ req[r].url = <<"https", ":", "/", "/", "example.org", "/", "page">>
    /\ req[r].calls[2].op = "extract_generic"
    /\ req[r].calls[3].status = "ok"

\* the platform's extractor by the priority youtube > instagram > tiktok > generic
ExpectedExtractor(host) ==
  IF \E i \in 1..Len(host) : host[i] \in {"youtube.com", "youtu.be"} THEN "extract_youtube"
  ELSE IF \E i \in 1..Len(host) : host[i] = "instagram.com" THEN "extract_instagram"
  ELSE IF \E i \in 1..Len(host) : host[i] = "tiktok.com" THEN "extract_tiktok"
  ELSE "extract_generic"

\* the host of a text, lower-cased ("YouTube.com" is the one token with capitals)
LowerHost(url) ==
  LET host == urlparse(url).netloc
  IN  [i \in 1..Len(host) |-> IF host[i] = "YouTube.com" THEN "youtube.com" ELSE host[i]]

\* C8: for every valid URL whose acknowledgment went through, exactly one
\* extractor is invoked and it is the one of the first matching platform of the
\* lower-cased host; before that no extractor is invoked.
C8_ExtractorByPlatformPriority ==
  \A r \in DOMAIN req :
    (req[r].pc # "idle" /\ ~NoSchemeOrNoHost(req[r].url))
      => IF req[r].calls[1].status = "ok"
         THEN /\ Len(req[r].calls) >= 2
              /\ CallsWith(r, ExtractorOps) = {2}
              /\ req[r].calls[2].op = ExpectedExtractor(LowerHost(req[r].url))
         ELSE CallsWith(r, ExtractorOps) = {}

\* C8 witness: a host naming both tiktok.com and youtube.com (in capitals) went
\* to the YouTube extractor
C8_Witness ==
  \E r \in DOMAIN req :
    /\ urlparse(req[r].url).netloc = <<"tiktok.com", "YouTube.com">>
    /\ Len(req[r].calls) >= 2
    /\ req[r].calls[2].op = "extract_youtube"

\* the dict is well-formed for delivery: a video has its file_size, and the
\* size limit is readable
WellFormed(r) ==
  /\ HasMedia(r)
  /\ req[r].media_info.type = "video"
       => "file_size" \in DOMAIN req[r].media_info /\ ~MaxFileSizeRaises(environ)

\* C9: for a well-formed MediaInfo there is exactly one delivery call, the call
\* right after the extractor's; its channel follows from type and size alone
\* (a video of file_size <= limit by reply_video with streaming, photo by
\* reply_photo, audio by reply_audio, any other type by reply_document), and a
\* binary send carries media.file_path and media.caption.
C9_ChannelByTypeAndSize ==
  \A r \in DOMAIN req :
    WellFormed(r) =>
      LET m == req[r].media_info
          c == req[r].calls[3]
      IN  /\ DeliveryCalls(r) = {3}
          /\ (m.type = "video" /\ m.file_size <= MaxFileSize(environ))
               => c.op = "reply_video" /\ c.supports_streaming = TRUE
          /\ m.type = "photo" => c.op = "reply_photo"
          /\ m.type = "audio" => c.op = "reply_audio"
          /\ m.type \notin {"video", "photo", "audio"} => c.op = "reply_document"
          /\ c.op \in BinaryOps => c.file = m.file_path /\ c.caption = m.caption

\* C9 witness: a video of exactly the limit's size went out by reply_video
C9_Witness ==
  \E r \in DOMAIN req :
    /\ Done(r) /\ WellFormed(r)
    /\ req[r].media_info.type = "video"
    /\ req[r].media_info.file_size = MaxFileSize(environ)
    /\ req[r].calls[3].op = "reply_video"
    /\ req[r].calls[3].status = "ok"

\* the extractor of request r raised
ExtractorRaised(r) ==
  /\ Len(req[r].calls) >= 2
  /\ req[r].calls[2].op \in ExtractorOps
  /\ req[r].calls[2].status = "raised"

\* C10: when the extractor raises, the next call is an error notice carrying
\* the failure's description; no delivery call and no deletion is made; the
\* request is on its way to done, and is done once the notice goes through.
C10_ExtractorFailureContained ==
  \A r \in DOMAIN req :
    ExtractorRaised(r)
      => /\ Len(req[r].calls) >= 3
         /\ IsErrorNotice(req[r].calls[3])
         /\ req[r].calls[3].text[2] \in ExtractErrors
         /\ DeliveryCalls(r) = {}
         /\ CallsWith(r, {"os.remove"}) = {}
         /\ ~HasMedia(r)
         /\ req[r].pc \in {"L124", "L78", "done"}
         /\ req[r].calls[3].status = "ok"
              => Done(r) /\ Len(req[r].calls) = 3 /\ req[r].outcome = "returned"

\* C10 witness: the extractor raised and the user got the error notice
C10_Witness ==
  \E r \in DOMAIN req :
    /\ Done(r) /\ ExtractorRaised(r)
    /\ req[r].calls[3].status = "ok"
    /\ req[r].calls[3].text = <<"Error sending media: ", "DownloadError">>

\* C11: after the media was delivered, a failure of os.remove puts no further
\* message before the user: no error notice is sent.  The code reports the
\* failure from the except clause of line 122, so this is violated.
C11_CleanupFailureSilent ==
  \A r \in DOMAIN req :
    (DeliverySucceeded(r) /\ RemoveRaised(r))
      => \A i \in CallIdx(r) : ~IsErrorNotice(req[r].calls[i])

\* C12: for a valid URL the acknowledgment is the first call and the only
\* acknowledgment of the request; an extractor is invoked only after it, and
\* only when it went through.
C12_AckOnceBeforeExtractor ==
  \A r \in DOMAIN req :
    (req[r].pc # "idle" /\ ~NoSchemeOrNoHost(req[r].url))
      => /\ {i \in CallIdx(r) : IsAck(req[r].calls[i])} = {1}
         /\ \A i \in CallsWith(r, ExtractorOps) : i > 1 /\ req[r].calls[1].status = "ok"
         /\ req[r].pc = "L60" <=> req[r].calls[1].status = "pending"

\* C12 witness: the extractor is running and the acknowledgment went through
C12_Witness ==
  \E r \in DOMAIN req :
    /\ req[r].pc = "L84"
    /\ IsAck(req[r].calls[1]) /\ req[r].calls[1].status = "ok"
    /\ req[r].calls[2].op = "extract_youtube" /\ req[r].calls[2].status = "pending"

\* the stage a call belongs to: 1 the first reply after validation, 2 the
\* extractor (picked by the classification), 3 the delivery or the "could not
\* extract" notice, 4 the deletion, 5 and 6 the two error notices
Stage(c) ==
  IF c.op \in ExtractorOps THEN 2
  ELSE IF c.op \in BinaryOps THEN 3
  ELSE IF c.op = "os.remove" THEN 4
  ELSE IF c.text = NoMediaText \/ IsTooLargeNotice(c) THEN 3
  ELSE IF c.text[1] = "Error sending media: " THEN 5
  ELSE IF c.text[1] = "Error processing your request: " THEN 6
  ELSE 1

\* C13: the calls of a request come in stage order and never overlap: a call is
\* made only when the one before it is over; the extractor is the one the
\* classification of a validated URL picked; a delivery call directly follows
\* an extractor call that returned; a deletion directly follows a delivery that
\* returned.
C13_StagesStrictlyOrdered ==
  \A r \in DOMAIN req :
    LET calls == req[r].calls
    IN  /\ \A i, j \in CallIdx(r) : i < j => Stage(calls[i]) < Stage(calls[j])
        /\ \A i \in CallIdx(r) : i < Len(calls) => calls[i].status # "pending"
        /\ \A i \in CallsWith(r, ExtractorOps) :
             /\ is_valid_url(req[r].url)
             /\ calls[i].op = req[r].extractor_func
             /\ req[r].extractor_func = ExtractorFor(Lower(urlparse(req[r].url).netloc))
        /\ \A i \in DeliveryCalls(r) :
             i > 1 /\ calls[i - 1].op \in ExtractorOps /\ calls[i - 1].status = "ok"
        /\ \A i \in CallsWith(r, {"os.remove"}) :
             i > 1 /\ (i - 1) \in DeliveryCalls(r) /\ calls[i - 1].status = "ok"

\* C13 witness: a request that went through all the stages, the deletion included
C13_Witness ==
  \E r \in DOMAIN req :
    /\ Done(r) /\ Len(req[r].calls) = 4
    /\ IsAck(req[r].calls[1])
    /\ req[r].calls[2].op = "extract_instagram"
    /\ req[r].calls[3].op = "reply_photo"
    /\ req[r].calls[4].op = "os.remove" /\ req[r].calls[4].status = "ok"

\* C14: a finished request with a valid URL invoked the extractor exactly once
\* and at most one media send primitive.  Violated: when the acknowledgment of
\* line 60 raises, the exception leaves process_url and no extractor is invoked.
C14_ExtractorExactlyOnce ==
  \A r \in DOMAIN req :
    (Done(r) /\ is_valid_url(req[r].url))
      => /\ Cardinality(CallsWith(r, ExtractorOps)) = 1
         /\ Cardinality(CallsWith(r, BinaryOps)) <= 1

IsInnerNotice(c) == c.op = "reply_text" /\ c.text[1] = "Error sending media: "

IsOuterNotice(c) == c.op = "reply_text" /\ c.text[1] = "Error processing your request: "

\* C18: failure handling has two ordered levels.  A call made inside
\* extract_and_send that raised (extractor, send primitive, "could not extract"
\* notice, deletion) is directly followed by the notice "Error sending media:
\* <cause>", and so is a size lookup that failed; the notice "Error processing your request: <cause>" is sent only
\* directly after an inner notice that raised; so the outer notice never comes
\* with a delivered inner notice, and a request makes at most two error-notice
\* sends.
C18_TwoLevelFailureHandling ==
  \A r \in DOMAIN req :
    LET calls == req[r].calls
    IN  /\ \A i \in CallIdx(r) :
             (calls[i].status = "raised" /\ Stage(calls[i]) \in {2, 3, 4})
               => /\ i < Len(calls)
                  /\ IsInnerNotice(calls[i + 1])
                  /\ calls[i + 1].text[2] \in ExtractErrors \cup RemoveOutcomes \cup {"NetworkError"}
        /\ (HasMedia(r) /\ req[r].media_info.type = "video"
               /\ ("file_size" \notin DOMAIN req[r].media_info \/ MaxFileSizeRaises(environ)))
             => IsInnerNotice(calls[3]) /\ calls[3].text[2] \in {"KeyError", "ValueError"}
        /\ \A i \in CallIdx(r) :
             IsOuterNotice(calls[i])
               => /\ i > 1
                  /\ IsInnerNotice(calls[i - 1])
                  /\ calls[i - 1].status = "raised"
                  /\ calls[i].text[2] = "NetworkError"
        /\ ~ \E i, j \in CallIdx(r) :
               IsInnerNotice(calls[i]) /\ calls[i].status = "ok" /\ IsOuterNotice(calls[j])
        /\ Cardinality({i \in CallIdx(r) : IsErrorNotice(calls[i])}) <= 2

\* C18 witness: the extractor raised, the inner notice raised too, and the
\* outer notice reached the user
C18_Witness ==
  \E r \in DOMAIN req :
    /\ Done(r) /\ Len(req[r].calls) = 4
    /\ req[r].calls[2].status = "raised"
    /\ IsInnerNotice(req[r].calls[3]) /\ req[r].calls[3].status = "raised"
    /\ IsOuterNotice(req[r].calls[4]) /\ req[r].calls[4].status = "ok"

\* C19: a request calls os.remove at most once, and only after its delivery
\* step (a media send primitive or the oversize notice) returned without
\* raising; a request whose extractor raised or returned None, or whose
\* delivery raised, makes no os.remove call; and a file leaves the disk only in
\* the step in which a delivery returned, the file being that request's.
C19_DeletionOnlyAfterDelivery ==
  /\ [](\A r \in DOMAIN req :
          /\ Cardinality(CallsWith(r, {"os.remove"})) <= 1
          /\ CallsWith(r, {"os.remove"}) # {} => DeliverySucceeded(r)
          /\ (ExtractorRaised(r) \/ ExtractorReturnedNone(r) \/ DeliveryRaised(r))
               => CallsWith(r, {"os.remove"}) = {})
  /\ [][~(fs' \subseteq fs) \/ fs' = fs \/
          \E r \in DOMAIN req :
            /\ req[r].pc \in DeliveryPcs
            /\ fs \ fs' = {req[r].media_info.file_path}
            /\ DeliverySucceeded(r)' /\ ~DeliveryRaised(r)'
            /\ CallsWith(r, {"os.remove"})' # {}]_vars

\* C19 witness: the oversize notice went out and the video's file was deleted
C19_Witness ==
  \E r \in DOMAIN req :
    /\ Done(r) /\ Len(req[r].calls) = 4
    /\ IsTooLargeNotice(req[r].calls[3]) /\ req[r].calls[3].status = "ok"
    /\ req[r].calls[4].op = "os.remove" /\ req[r].calls[4].status = "ok"
    /\ req[r].media_info.file_path \notin fs

\* C17: when every awaited call eventually returns or raises, a request that
\* has started eventually reaches done, whatever path it takes.
C17_EveryRequestReachesDone ==
  \A r \in {1} : (req[r].pc \notin {"idle", "done"}) ~> Done(r)

\* C17 witness: a request is done after the longest path: delivery, a deletion
\* that raised, an inner notice that raised and the outer notice
C17_Witness ==
  \E r \in DOMAIN req :
    /\ Done(r) /\ Len(req[r].calls) = 6
    /\ DeliverySucceeded(r) /\ RemoveRaised(r)
    /\ req[r].calls[6].status \in {"ok", "raised"}

\* C15: with distinct file paths, requests interleaved at their awaits do not
\* touch each other: a step of one request changes no other request, leaves the
\* file of every other request in flight as it was, and takes from the disk
\* nothing but the request's own file; the reply a request makes after its
\* extractor returned is the one its own media_info selects, and its os.remove
\* names its own file.
C15_ConcurrentRequestsIndependent ==
  /\ [](\A r \in DOMAIN req :
          /\ (Len(req[r].calls) >= 3 /\ req[r].calls[2].status = "ok")
               => [req[r].calls[3] EXCEPT !.status = "pending"]
                    = SelectDelivery(Idle, << >>, req[r].media_info, environ).calls[1]
          /\ \A i \in CallsWith(r, {"os.remove"}) :
               req[r].calls[i].file = req[r].media_info.file_path)
  /\ [][\A r \in DOMAIN req :
          req'[r] # req[r] =>
            /\ \A q \in DOMAIN req \ {r} :
                 /\ req'[q] = req[q]
                 /\ (InFlight(q) /\ HasMedia(q))
                      => (req[q].media_info.file_path \in fs'
                            <=> req[q].media_info.file_path \in fs)
            /\ \A p \in fs \ fs' : HasMedia(r) /\ p = req[r].media_info.file_path]_vars

\* C15 witness: request 1 has delivered and deleted its file while request 2,
\* whose file is on disk, is still delivering
C15_Witness ==
  /\ Done(1) /\ HasMedia(1) /\ DeliverySucceeded(1)
  /\ \E i \in CallsWith(1, {"os.remove"}) : req[1].calls[i].status = "ok"
  /\ req[1].media_info.file_path \notin fs
  /\ req[2].pc \in DeliveryPcs
  /\ req[2].media_info.file_path \in fs

\* C16: two deliveries of the same video MediaInfo in one process run take the
\* same branch, oversize notice or not.  Violated: line 92 reads MAX_FILE_SIZE
\* from the environment at every delivery, so a change in between changes the
\* branch.
C16_SameBranchForSameMedia ==
  \A r, q \in DOMAIN req :
    (/\ HasMedia(r) /\ HasMedia(q) /\ req[r].media_info = req[q].media_info
     /\ req[r].media_info.type = "video"
     /\ Len(req[r].calls) >= 3 /\ Len(req[q].calls) >= 3)
      => (IsTooLargeNotice(req[r].calls[3]) <=> IsTooLargeNotice(req[q].calls[3]))

====
